---------------------------- MODULE Spec2Model ----------------------------
(***************************************************************************)
(* A model of pyunits.py: the unit catalog (unitDict) and the pyunits      *)
(* class (a magnitude coupled to a unit, an SI exponent vector and the     *)
(* magnitude in the base unit), with its arithmetic, comparison,           *)
(* conversion and update methods.                                          *)
(*                                                                         *)
(* Numbers.  Python's floats are binary doubles: a number is a record      *)
(* [neg, m, e] of value m * 2^e (m an odd natural number of 53 bits at     *)
(* most, kept as a sequence of limbs).  +, -, * and / give the double      *)
(* nearest to the exact result, a literal such as 1e-3 is the double       *)
(* nearest to it, and round(x, precLevel) is what CPython does: the        *)
(* decimal of precLevel digits after the point nearest to x, then the      *)
(* double nearest to that decimal.  ** is the C library's pow, which is    *)
(* accurate to the last bit but not always the nearest double: the model   *)
(* leaves the choice between the two doubles next to the exact power       *)
(* open.  An int is modelled by the double of the same value (exact        *)
(* below 2^53); infinities, NaN, subnormals and the sign of zero are not   *)
(* modelled, no value of the model comes near them.                        *)
(*                                                                         *)
(* Objects.  Python objects have identity and are passed by reference.     *)
(* The two program variables a and b are store[1] and store[2]; a          *)
(* method works on a store (a sequence of objects) that it may extend      *)
(* with copies (copy.deepcopy) and mutate through references; the heap     *)
(* after the call is the first two entries of that store.                  *)
(*                                                                         *)
(* Process.  proc is the interpreter running pyunits.py: how the module    *)
(* was started (as a script or by import), where the process is, whether   *)
(* unitDicTest() has returned and whether a pyunits has been constructed.  *)
(***************************************************************************)
EXTENDS Integers, Sequences, FiniteSets, TLC

VARIABLES heap, res, op, pre, proc

vars == <<heap, res, op, pre, proc>>

(***************************************************************************)
(* Numbers                                                                 *)
(***************************************************************************)
\* Natural numbers of any size: the sequence of their digits (limbs) in base
\* Base, the least significant first, without leading zeros; zero is << >>.
Base == 32768

LimbBits == 15

\* 2^k for k < LimbBits.
TwoTo(k) == <<1, 2, 4, 8, 16, 32, 64, 128, 256, 512, 1024, 2048, 4096, 8192, 16384>>[k + 1]

Limb(a, i) == IF 1 <= i /\ i <= Len(a) THEN a[i] ELSE 0

\* The limbs of a without the leading zeros.
BTrim(a) ==
  SubSeq(a, 1, CHOOSE i \in 0..Len(a) : /\ i = 0 \/ a[i] # 0
                                        /\ \A j \in (i + 1)..Len(a) : a[j] = 0)

\* A natural number below 2^31.
BNat(n) == BTrim(<<n % Base, (n \div Base) % Base, n \div (Base * Base)>>)

\* The carry into limb i of a + b.
CarryIn(a, b, i) ==
  IF \E j \in 1..(i - 1) : /\ Limb(a, j) + Limb(b, j) >= Base
                            /\ \A k \in (j + 1)..(i - 1) : Limb(a, k) + Limb(b, k) = Base - 1
  THEN 1 ELSE 0

BAdd(a, b) ==
  IF a = << >> THEN b
  ELSE IF b = << >> THEN a
  ELSE BTrim([i \in 1..((IF Len(a) > Len(b) THEN Len(a) ELSE Len(b)) + 1) |->
           (Limb(a, i) + Limb(b, i) + CarryIn(a, b, i)) % Base])

\* The borrow from limb i of a - b.
BorrowIn(a, b, i) ==
  IF \E j \in 1..(i - 1) : /\ Limb(a, j) < Limb(b, j)
                            /\ \A k \in (j + 1)..(i - 1) : Limb(a, k) = Limb(b, k)
  THEN 1 ELSE 0

\* a - b for a >= b.
BSub(a, b) ==
  IF b = << >> THEN a
  ELSE BTrim([i \in 1..Len(a) |-> (a[i] - Limb(b, i) - BorrowIn(a, b, i) + Base) % Base])

\* -1, 0 or 1 as a < b, a = b or a > b.
BCmp(a, b) ==
  IF Len(a) # Len(b) THEN (IF Len(a) < Len(b) THEN 0 - 1 ELSE 1)
  ELSE IF a = b THEN 0
  ELSE IF \E i \in 1..Len(a) : a[i] < b[i] /\ \A j \in (i + 1)..Len(a) : a[j] = b[j]
  THEN 0 - 1
  ELSE 1

\* a * k for 0 <= k < Base: the low halves of the limb products plus their
\* high halves one limb up.
BMulSmall(a, k) ==
  IF k = 0 \/ a = << >> THEN << >>
  ELSE BAdd([i \in 1..Len(a) |-> (a[i] * k) % Base],
            [i \in 1..(Len(a) + 1) |-> (Limb(a, i - 1) * k) \div Base])

\* The sum of F(lo), ..., F(hi), lo <= hi.
RECURSIVE SumOver(_, _, _)
SumOver(F(_), lo, hi) ==
  IF lo = hi THEN F(lo)
  ELSE SumOver(F, lo, (lo + hi) \div 2) + SumOver(F, (lo + hi) \div 2 + 1, hi)

\* Column c of the product a * b: the low halves of the limb products of
\* weight Base^(c-1) and the high halves of those of weight Base^(c-2).
Column(a, b, c) ==
  LET Part(i) == ((Limb(a, i) * Limb(b, c + 1 - i)) % Base)
                 + ((Limb(a, i) * Limb(b, c - i)) \div Base)
  IN  SumOver(Part, 1, Len(a))

BMul(a, b) ==
  IF a = << >> \/ b = << >> THEN << >>
  ELSE LET Cols(cs) == BAdd([c \in 1..Len(cs) |-> cs[c] % Base],
                            [c \in 1..(Len(cs) + 1) |-> Limb(cs, c - 1) \div Base])
       IN  Cols(<< >> \o [c \in 1..(Len(a) + Len(b)) |-> Column(a, b, c)])

\* a * 2^n
BShl(a, n) ==
  LET Moved(q, s) ==
        BTrim([j \in 1..(Len(a) + q + 1) |->
                 ((Limb(a, j - q) * TwoTo(s)) % Base)
                 + ((Limb(a, j - q - 1) * TwoTo(s)) \div Base)])
  IN  IF a = << >> \/ n = 0 THEN a ELSE Moved(n \div LimbBits, n % LimbBits)

\* floor(a / 2^n)
BShr(a, n) ==
  LET Moved(q, s) ==
        BTrim([j \in 1..(Len(a) - q) |->
                 (Limb(a, j + q) \div TwoTo(s))
                 + ((Limb(a, j + q + 1) % TwoTo(s)) * TwoTo(LimbBits - s))])
  IN  IF a = << >> \/ n = 0 THEN a
      ELSE IF n % LimbBits = 0 THEN SubSeq(a, n \div LimbBits + 1, Len(a))
      ELSE Moved(n \div LimbBits, n % LimbBits)

\* The number of bits of n < Base.
BitLen(n) == Cardinality({k \in 0..(LimbBits - 1) : TwoTo(k) <= n})

\* The number of bits of a.
BBits(a) == IF a = << >> THEN 0 ELSE (Len(a) - 1) * LimbBits + BitLen(a[Len(a)])

\* Bit i of a, bit 0 the least significant.
BBit(a, i) == (Limb(a, i \div LimbBits + 1) \div TwoTo(i % LimbBits)) % 2

\* a is a multiple of 2^n.
BLowZero(a, n) ==
  /\ \A i \in 1..(n \div LimbBits) : Limb(a, i) = 0
  /\ Limb(a, n \div LimbBits + 1) % TwoTo(n % LimbBits) = 0

BOdd(a) == a # << >> /\ a[1] % 2 = 1

\* The trailing zero bits of a > 0.
BTrailing(a) ==
  LET Low(i) == (i - 1) * LimbBits
                + (CHOOSE k \in 0..(LimbBits - 1) : a[i] % TwoTo(k) = 0 /\ (a[i] \div TwoTo(k)) % 2 = 1)
  IN  Low(CHOOSE i \in 1..Len(a) : a[i] # 0 /\ \A j \in 1..(i - 1) : a[j] = 0)

\* The estimate of a quotient digit, never below it: the two top limbs of r
\* by the top limb of b (b's top limb at least Base / 2, r < b * Base).
BGuess(r, b) ==
  IF (Limb(r, Len(b) + 1) * Base + Limb(r, Len(b))) \div b[Len(b)] >= Base THEN Base - 1
  ELSE (Limb(r, Len(b) + 1) * Base + Limb(r, Len(b))) \div b[Len(b)]

\* The quotient digit of r by b from the estimate d, p being b * d: the digit
\* goes to the quotient q and what is left of r is the remainder.
RECURSIVE DivPut(_, _, _, _, _)
DivPut(r, b, q, d, p) ==
  IF BCmp(p, r) > 0 THEN DivPut(r, b, q, d - 1, BMulSmall(b, d - 1))
  ELSE [r |-> BSub(r, p), q |-> <<d>> \o q]

DivTry(r, b, q, d) == DivPut(r, b, q, d, BMulSmall(b, d))

\* One step of the long division by b: the next limb x of the dividend is
\* brought down to the remainder s.r, and the quotient s.q gets its digit.
DivStep(s, b, x) ==
  IF s.r = << >> /\ x = 0 THEN [r |-> << >>, q |-> <<0>> \o s.q]
  ELSE DivTry(<<x>> \o s.r, b, s.q, BGuess(<<x>> \o s.r, b))

\* The long division by b of the limbs of a from the top down to limb i.
RECURSIVE BDivFrom(_, _, _)
BDivFrom(a, b, i) ==
  IF i > Len(a) - Len(b) + 1 THEN [r |-> SubSeq(a, i, Len(a)), q |-> << >>]
  ELSE DivStep(BDivFrom(a, b, i + 1), b, a[i])

DivEnd(s) == [q |-> BTrim(s.q), rest |-> s.r # << >>]

\* The division by b whose top limb is at least Base / 2.
BDivNormal(a, b) ==
  IF Len(a) < Len(b) THEN [q |-> << >>, rest |-> a # << >>]
  ELSE DivEnd(BDivFrom(a, b, 1))

\* floor(a / b) and whether the division left a remainder, b > 0.
BDivMod(a, b) ==
  BDivNormal(BShl(a, LimbBits - BitLen(b[Len(b)])), BShl(b, LimbBits - BitLen(b[Len(b)])))

\* 10^n
RECURSIVE BPow10(_)
BPow10(n) ==
  IF n <= 9
  THEN BNat(<<1, 10, 100, 1000, 10000, 100000, 1000000, 10000000, 100000000, 1000000000>>[n + 1])
  ELSE BMul(BPow10(9), BPow10(n - 9))

\* a^n
RECURSIVE BPow(_, _)
BPow(a, n) == IF n = 0 THEN <<1>> ELSE BMul(a, BPow(a, n - 1))

\* A Python number: neg is its sign, m * 2^e its absolute value, m odd; zero
\* is m = << >>.  A float is a binary double, and every operation on floats
\* gives the double nearest to the exact result, a tie going to the even
\* mantissa.  An int is modelled by the double of the same value.
MantBits == 53

Zero == [neg |-> FALSE, m |-> << >>, e |-> 0]

Norm(neg, m, e) ==
  IF m = << >> THEN Zero
  ELSE [neg |-> neg, m |-> BShr(m, BTrailing(m)), e |-> e + BTrailing(m)]

\* m / 2^d for d > 0 rounded to an integer, a tie going to the even one.
HalfEven(m, d) ==
  IF BBit(m, d - 1) = 1 /\ (~BLowZero(m, d - 1) \/ BBit(m, d) = 1)
  THEN BAdd(BShr(m, d), <<1>>)
  ELSE BShr(m, d)

\* m * 2^e without its d low bits, rounded on them.
NearestCut(neg, m, e, d) == Norm(neg, HalfEven(m, d), e + d)

\* The double nearest to m * 2^e.
Nearest(neg, m, e) ==
  IF BBits(m) <= MantBits THEN Norm(neg, m, e)
  ELSE NearestCut(neg, m, e, BBits(m) - MantBits)

\* The quotient d.q of a division with one more bit, set when the division
\* left a remainder.
Sticky(d) == IF d.rest THEN BAdd(BShl(d.q, 1), <<1>>) ELSE BShl(d.q, 1)

\* The bits to shift a by for a quotient by b of MantBits + 4 bits at least.
QuotShift(a, b) ==
  IF MantBits + 4 + BBits(b) - BBits(a) > 0 THEN MantBits + 4 + BBits(b) - BBits(a) ELSE 0

\* The double nearest to (a / b) * 2^e for naturals a and b > 0.
Quotient(neg, a, b, e) ==
  IF a = << >> THEN Zero
  ELSE Nearest(neg, Sticky(BDivMod(BShl(a, QuotShift(a, b)), b)), e - QuotShift(a, b) - 1)

Int2Num(n) == IF n < 0 THEN Norm(TRUE, BNat(0 - n), 0) ELSE Norm(FALSE, BNat(n), 0)

\* The literal m e k of the source (m an integer), as Python reads it.
Dec(m, k) ==
  Quotient(m < 0,
           BMul(BNat(IF m < 0 THEN 0 - m ELSE m), BPow10(IF k > 0 THEN k ELSE 0)),
           BPow10(IF k < 0 THEN 0 - k ELSE 0), 0)

NumNeg(x) == IF x.m = << >> THEN x ELSE [x EXCEPT !.neg = ~x.neg]

NumAbs(x) == [x EXCEPT !.neg = FALSE]

\* The double nearest to the sum of a * 2^e, negative when nega, and
\* b * 2^e, negative when negb.
NumSum(nega, a, negb, b, e) ==
  Nearest(IF nega = negb \/ BCmp(a, b) >= 0 THEN nega ELSE negb,
          IF nega = negb THEN BAdd(a, b)
          ELSE IF BCmp(a, b) >= 0 THEN BSub(a, b)
          ELSE BSub(b, a),
          e)

\* x + y
NumAdd(x, y) ==
  IF x.m = << >> THEN y
  ELSE IF y.m = << >> THEN x
  ELSE NumSum(x.neg, BShl(x.m, IF x.e <= y.e THEN 0 ELSE x.e - y.e),
              y.neg, BShl(y.m, IF x.e <= y.e THEN y.e - x.e ELSE 0),
              IF x.e <= y.e THEN x.e ELSE y.e)

\* x * y
NumMul(x, y) == Nearest(x.neg # y.neg, BMul(x.m, y.m), x.e + y.e)

\* x / y for y # 0
NumDiv(x, y) == Quotient(x.neg # y.neg, x.m, y.m, x.e - y.e)

\* 1 / x for x # 0
NumInv(x) == NumDiv(Int2Num(1), x)

\* x < y
NumLess(x, y) ==
  IF x.neg # y.neg THEN x.neg
  ELSE IF x.m = << >> THEN y.m # << >>
  ELSE IF y.m = << >> THEN x.neg
  ELSE IF x.e <= y.e
  THEN BCmp(x.m, BShl(y.m, y.e - x.e)) = (IF x.neg THEN 1 ELSE 0 - 1)
  ELSE BCmp(BShl(x.m, x.e - y.e), y.m) = (IF x.neg THEN 1 ELSE 0 - 1)

\* The double next to m * 2^e, above it in absolute value when up and below
\* it otherwise; m * 2^e itself when it is a double.
Toward(neg, m, e, up) ==
  IF BBits(m) <= MantBits \/ BLowZero(m, BBits(m) - MantBits) THEN Norm(neg, m, e)
  ELSE IF up THEN Norm(neg, BAdd(BShr(m, BBits(m) - MantBits), <<1>>), e + BBits(m) - MantBits)
  ELSE Norm(neg, BShr(m, BBits(m) - MantBits), e + BBits(m) - MantBits)

\* The two doubles next to m * 2^e.
Around(neg, m, e) == {Toward(neg, m, e, up) : up \in BOOLEAN}

\* The two doubles next to 2^e / a, the quotient taken to k bits.
AroundInverse(neg, a, e, k) == Around(neg, Sticky(BDivMod(BShl(<<1>>, k), a)), e - k - 1)

\* x ** p for an integer p, x # 0 when p < 0: the C library's pow gives one of
\* the two doubles next to the exact power, and the power itself when it is a
\* double.
NumPow(x, p) ==
  IF p >= 0 THEN Around(x.neg /\ p % 2 = 1, BPow(x.m, p), x.e * p)
  ELSE AroundInverse(x.neg /\ p % 2 = 1, BPow(x.m, 0 - p), x.e * p,
                     QuotShift(<<1>>, BPow(x.m, 0 - p)))

precLevel == 15

\* The powers of ten round() is called with.
TenTo == [n \in 0..precLevel |-> BPow10(n)]

\* The number t / 2^f rounded to an integer, a tie going to the even one, then
\* the double nearest to that integer over ten.
RoundCut(neg, t, f, ten) ==
  IF f > BBits(t) + 1 THEN Zero
  ELSE Quotient(neg, HalfEven(t, f), ten, 0)

\* round(x, n): the decimal of n digits after the point nearest to x, a tie
\* going to the even digit, then the double nearest to that decimal.
Round(x, n) ==
  IF x.e >= 0 THEN x
  ELSE RoundCut(x.neg, BMul(x.m, TenTo[n]), 0 - x.e, TenTo[n])

IsZero(x) == x.m = << >>

(***************************************************************************)
(* The catalog                                                             *)
(***************************************************************************)
NoneV == "None"

\* unitDict.  Its factors are written 1ek in the source (and 1, which is
\* k = 0): a list of factors holds the exponents k, and E[k] is the number
\* Python reads from the literal.
unitDict ==
  ( "unitless" :>
      [units |-> <<"">>, factors |-> <<>>, base |-> "",
       SIID |-> <<0, 0, 0, 0, 0, 0, 0>>] @@
    "length" :>
      [units |-> <<"μm", "mm", "cm", "dm", "m", "km">>,
       factors |-> <<6, 3, 2, 1, 0, -3>>, base |-> "m",
       SIID |-> <<1, 0, 0, 0, 0, 0, 0>>] @@
    "area" :>
      [units |-> <<"μm2", "mm2", "cm2", "dm2", "m2", "km2">>,
       factors |-> <<12, 6, 4, 2, 0, -6>>, base |-> "m2",
       SIID |-> <<2, 0, 0, 0, 0, 0, 0>>] @@
    "section mod.|volume" :>
      [units |-> <<"μm3", "mm3", "cm3", "dm3", "m3", "km3">>,
       factors |-> <<18, 9, 6, 3, 0, -9>>, base |-> "m3",
       SIID |-> <<3, 0, 0, 0, 0, 0, 0>>] @@
    "mom. of inert.|tors. const." :>
      [units |-> <<"μm4", "mm4", "cm4", "dm4", "m4", "km4">>,
       factors |-> <<24, 12, 8, 4, 0, -12>>, base |-> "m4",
       SIID |-> <<4, 0, 0, 0, 0, 0, 0>>] @@
    "wraping constant" :>
      [units |-> <<"μm6", "mm6", "cm6", "dm6", "m6", "km6">>,
       factors |-> <<36, 18, 12, 6, 0, -18>>, base |-> "m6",
       SIID |-> <<6, 0, 0, 0, 0, 0, 0>>] @@
    "mass" :>
      [units |-> <<"g", "kg">>, factors |-> <<3, 0>>, base |-> "kg",
       SIID |-> <<0, 1, 0, 0, 0, 0, 0>>] @@
    "time" :>
      [units |-> <<"μs", "ms", "s", "ks">>,
       factors |-> <<6, 3, 0, -3>>, base |-> "s",
       SIID |-> <<0, 0, 1, 0, 0, 0, 0>>] @@
    "force" :>
      [units |-> <<"N", "kN", "MN">>, factors |-> <<0, -3, -6>>,
       base |-> "N", SIID |-> <<1, 1, -2, 0, 0, 0, 0>>] @@
    "moment" :>
      [units |-> <<"Nm", "kNm", "MNm">>, factors |-> <<0, -3, -6>>,
       base |-> "Nm", SIID |-> <<2, 1, -2, 0, 0, 0, 0>>] @@
    "stress|strain" :>
      [units |-> <<"Pa", "kPa", "MPa", "N/mm2">>,
       factors |-> <<0, -3, -6, -6>>, base |-> "Pa",
       SIID |-> <<-1, 1, -2, 0, 0, 0, 0>>] )

\* The literals 1ek of the catalog, as Python reads them.
E ==
  [k \in UNION {{unitDict[us].factors[i] : i \in DOMAIN unitDict[us].factors} :
                  us \in DOMAIN unitDict} |-> Dec(1, k)]

\* unitDict[unitSet][1], the list of the factors of a family.
Factors(ud) == [i \in DOMAIN ud.factors |-> E[ud.factors[i]]]

UnitSets == DOMAIN unitDict

Range(s) == {s[i] : i \in DOMAIN s}

\* list.index(x): the first position of x in s, or 0 when absent (ValueError).
Index(s, x) ==
  IF x \in Range(s) THEN CHOOSE i \in DOMAIN s : s[i] = x /\ \A j \in 1..(i - 1) : s[j] # x
  ELSE 0

\* findUnitSet(unit), unit a string: the families that list the symbol.
findUnitSetByName(unit) == {us \in UnitSets : unit \in Range(unitDict[us].units)}

\* findUnitSet(unit), unit a list: the families with that SIID.
findUnitSetBySIID(siid) == {us \in UnitSets : unitDict[us].SIID = siid}

lstSIUnits == <<"m", "kg", "s", "K", "A", "mole", "cd">>

\* The labels of the axes with a nonzero power, in the order of lstSIUnits.
RECURSIVE UnitParts(_, _)
UnitParts(siid, i) ==
  IF i > Len(siid) THEN << >>
  ELSE (IF siid[i] # 0
        THEN (IF siid[i] = 1 THEN <<lstSIUnits[i]>>
              ELSE <<lstSIUnits[i] \o ToString(siid[i])>>)
        ELSE << >>) \o UnitParts(siid, i + 1)

RECURSIVE Join(_)
Join(parts) ==
  IF parts = << >> THEN ""
  ELSE IF Len(parts) = 1 THEN parts[1]
  ELSE parts[1] \o " " \o Join(Tail(parts))

\* The label with every power left out.
findUnitFromSIIDBare(siid) ==
  Join(UnitParts([i \in DOMAIN siid |-> IF siid[i] # 0 THEN 1 ELSE 0], 1))

\* Each part is appended followed by a space and the last character of the
\* whole is dropped: the parts joined by single spaces.
findUnitFromSIID(siid) == Join(UnitParts(siid, 1))

(***************************************************************************)
(* Objects, outcomes, the store                                            *)
(***************************************************************************)
\* SIID=None
NoSIID == << >>

NoQ ==
  [name |-> "", value |-> Zero, unit |-> "", SIID |-> NoSIID, info |-> NoneV,
   formula |-> NoneV, unitSet |-> NoneV, unitBase |-> "", valueBase |-> Zero]

\* What a call gives back: a reference into the store (a pyunits), a number,
\* a boolean, or the exception it raises.
Raise(e) == [kind |-> "error", err |-> e, ref |-> 0, n |-> Zero, b |-> FALSE]

RetRef(r) == [kind |-> "quantity", err |-> "", ref |-> r, n |-> Zero, b |-> FALSE]

RetNum(x) == [kind |-> "number", err |-> "", ref |-> 0, n |-> x, b |-> FALSE]

RetBool(v) == [kind |-> "boolean", err |-> "", ref |-> 0, n |-> Zero, b |-> v]

Ret(s, o) == [store |-> s, out |-> o]

\* copy.deepcopy(x): a new object with the same contents.
DeepCopyAliased(store, ref) == [store |-> store, ref |-> ref]

DeepCopy(store, ref) == [store |-> Append(store, store[ref]), ref |-> Len(store) + 1]

\* An operand that is not a pyunits.
Number(x) == [kind |-> "number", ref |-> 0, n |-> x]

Quantity(r) == [kind |-> "quantity", ref |-> r, n |-> Zero]

(***************************************************************************)
(* convert                                                                 *)
(***************************************************************************)
\* conversionFactor = factors[toUnitIndex] / factors[fromUnitIndex], or the
\* exception of the lookups: a symbol that is not in the family, or one
\* whose position is beyond the list of factors (IndexError).
ConversionFactorAt(factors, toUnitIndex, fromUnitIndex) ==
  IF toUnitIndex = 0 THEN Raise("UnknownUnit")
  ELSE IF fromUnitIndex = 0 THEN Raise("UnknownUnit")
  ELSE IF toUnitIndex > Len(factors) \/ fromUnitIndex > Len(factors)
       THEN Raise("IndexError")
  ELSE RetNum(NumDiv(factors[toUnitIndex], factors[fromUnitIndex]))

\* The conversion factor of convert(), or the exception its lookups raise.
\* unitDict[None] is a KeyError.
ConversionFactor(q, toUnit) ==
  IF q.unitSet = NoneV THEN Raise("KeyError")
  ELSE ConversionFactorAt(Factors(unitDict[q.unitSet]),
                          Index(unitDict[q.unitSet].units, toUnit),
                          Index(unitDict[q.unitSet].units, q.unit))

\* self.value * conversionFactor
Scaled(value, cf) == IF cf.kind = "error" THEN cf ELSE RetNum(NumMul(value, cf.n))

\* q.convert(toUnit, out="value")
ConvertValue(q, toUnit) == Scaled(q.value, ConversionFactor(q, toUnit))

\* The end of convert(): cv is self.value * conversionFactor, or the
\* exception of the lookups.
Converted(store, self, toUnit, out, cv) ==
  IF cv.kind = "error" THEN Ret(store, cv)
  ELSE IF out = "value" THEN Ret(store, cv)
  ELSE IF out = "variable"
       THEN Ret([store EXCEPT ![self].value = cv.n, ![self].unit = toUnit], RetRef(self))
  ELSE Ret(store, Raise("UnknownOutput"))

\* self.convert(toUnit, out): "value" returns the number, "variable" changes
\* self and returns it, anything else raises after the lookups.
Convert(store, self, toUnit, out) ==
  Converted(store, self, toUnit, out, ConvertValue(store[self], toUnit))

(***************************************************************************)
(* The constructor                                                         *)
(***************************************************************************)
\* self.valueBase = round(self.convert(self.unitBase, out="value"), precLevel)
ConstructBased(q1, c) ==
  IF c.kind = "error" THEN [ok |-> FALSE, err |-> c.err, q |-> NoQ]
  ELSE [ok |-> TRUE, err |-> "", q |-> [q1 EXCEPT !.valueBase = Round(c.n, precLevel)]]

\* The unit belongs to a family: q1 has its unitSet, SIID and unitBase.
ConstructInUnitSet(q1) ==
  IF q1.unitBase = q1.unit
  THEN [ok |-> TRUE, err |-> "", q |-> [q1 EXCEPT !.valueBase = q1.value]]
  ELSE ConstructBased(q1, ConvertValue(q1, q1.unitBase))

\* q0 is the object before the lookup of its unit, lstUnitSet the families
\* of the unit.
ConstructLooked(q0, siid, lstUnitSet) ==
  IF lstUnitSet = {}
  THEN IF siid = NoSIID THEN [ok |-> FALSE, err |-> "MissingDimension", q |-> NoQ]
       ELSE [ok |-> TRUE, err |-> "", q |-> [q0 EXCEPT !.valueBase = Round(@, precLevel)]]
  ELSE ConstructInUnitSet([q0 EXCEPT !.unitSet = CHOOSE u \in lstUnitSet : TRUE,
                                     !.SIID = unitDict[CHOOSE u \in lstUnitSet : TRUE].SIID,
                                     !.unitBase = unitDict[CHOOSE u \in lstUnitSet : TRUE].base])

\* v is round(value, precLevel).  self.info = info and self.formula = formula,
\* whatever they are; an argument left out is NoneV.
ConstructValued(name, v, unit, siid, info, formula) ==
  ConstructLooked([name |-> name, value |-> v, unit |-> unit, SIID |-> siid,
                   info |-> info, formula |-> formula, unitSet |-> NoneV,
                   unitBase |-> unit, valueBase |-> v],
                  siid, findUnitSetByName(unit))

\* pyunits(name, value, unit, SIID=siid, formula=formula) with name, value
\* and unit given: the new object, or the exception.
Construct(name, value, unit, siid, info, formula) ==
  ConstructValued(name, Round(value, precLevel), unit, siid, info, formula)

\* A string is given as the sequence of its characters where the program
\* looks into it; Text is the string itself.
RECURSIVE Text(_)
Text(cs) == IF cs = << >> THEN "" ELSE Head(cs) \o Text(Tail(cs))

DigitChars == <<"0", "1", "2", "3", "4", "5", "6", "7", "8", "9">>

\* The characters the pattern [^0-9|^.] passes over.
NumberChars == Range(DigitChars) \cup {"|", "^", "."}

\* re.search(r"[^0-9|^.]", cs).start() + 1, or 0 when there is no match.
FirstUnitChar(cs) ==
  IF \A i \in DOMAIN cs : cs[i] \in NumberChars THEN 0
  ELSE CHOOSE i \in DOMAIN cs :
         cs[i] \notin NumberChars /\ \A j \in 1..(i - 1) : cs[j] \in NumberChars

\* The integer written by the digits ds, 0 for none.
RECURSIVE Natural(_)
Natural(ds) ==
  IF ds = << >> THEN 0
  ELSE Natural(SubSeq(ds, 1, Len(ds) - 1)) * 10
       + (CHOOSE d \in 0..9 : DigitChars[d + 1] = ds[Len(ds)])

\* The characters of cs that are not c, in their order.
RECURSIVE Without(_, _)
Without(cs, c) ==
  IF cs = << >> THEN << >>
  ELSE (IF Head(cs) = c THEN << >> ELSE <<Head(cs)>>) \o Without(Tail(cs), c)

\* The number of characters after the first c of cs.
After(cs, c) == Len(cs) - (CHOOSE i \in DOMAIN cs : cs[i] = c /\ \A j \in 1..(i - 1) : cs[j] # c)

\* round(float(value), precLevel) if "." in value else int(value), for a
\* value made of the characters of NumberChars: a ValueError when value is
\* not a numeral.
ParseValue(value) ==
  IF \E i \in DOMAIN value : value[i] = "."
  THEN IF /\ Len(Without(value, ".")) = Len(value) - 1
          /\ Without(value, ".") # << >>
          /\ \A i \in DOMAIN value : value[i] \in Range(DigitChars) \cup {"."}
       THEN [ok |-> TRUE,
             v |-> Round(Dec(Natural(Without(value, ".")), 0 - After(value, ".")), precLevel)]
       ELSE [ok |-> FALSE, v |-> Zero]
  ELSE IF value # << >> /\ \A i \in DOMAIN value : value[i] \in Range(DigitChars)
       THEN [ok |-> TRUE, v |-> Int2Num(Natural(value))]
       ELSE [ok |-> FALSE, v |-> Zero]

\* self.value is pv, or the ValueError of float() or int().
ConstructParsed(name, pv, unit, siid, info, formula) ==
  IF ~pv.ok THEN [ok |-> FALSE, err |-> "ValueError", q |-> NoQ]
  ELSE ConstructValued(name, pv.v, unit, siid, info, formula)

\* nameSplit[1] is cut at position at, the first character of the unit;
\* tmpOut is None when there is none, and tmpOut.start() an AttributeError.
ConstructSplit(name, rest, at, siid, info, formula) ==
  IF at = 0 THEN [ok |-> FALSE, err |-> "AttributeError", q |-> NoQ]
  ELSE ConstructParsed(Text(name), ParseValue(SubSeq(rest, 1, at - 1)),
                       Text(SubSeq(rest, at, Len(rest))), siid, info, formula)

\* nameSplit = orgName.split("="), eqs the positions of "=" in orgName.
ConstructNameSplit(orgName, eqs, siid, info, formula) ==
  IF Cardinality(eqs) < 1 THEN [ok |-> FALSE, err |-> "MissingEqual", q |-> NoQ]
  ELSE IF Cardinality(eqs) > 1 THEN [ok |-> FALSE, err |-> "ManyEquals", q |-> NoQ]
  ELSE ConstructSplit(SubSeq(orgName, 1, (CHOOSE i \in eqs : TRUE) - 1),
                      SubSeq(orgName, (CHOOSE i \in eqs : TRUE) + 1, Len(orgName)),
                      FirstUnitChar(SubSeq(orgName, (CHOOSE i \in eqs : TRUE) + 1,
                                           Len(orgName))),
                      siid, info, formula)

\* pyunits(name, SIID=siid, formula=formula), value and unit left out: name
\* is the declaration "name=<value><unit>".
ConstructString(name, siid, info, formula) ==
  ConstructNameSplit(name, {i \in DOMAIN name : name[i] = "="}, siid, info, formula)

\* pyunits(name, value) and pyunits(name, unit=unit): one of value and unit
\* left out.
ConstructMissing == [ok |-> FALSE, err |-> "MissingInput", q |-> NoQ]

\* The object c of a constructor joins the store, or its exception is raised.
Stored(store, c) ==
  IF c.ok THEN Ret(Append(store, c.q), RetRef(Len(store) + 1))
  ELSE Ret(store, Raise(c.err))

\* The constructor called inside a method: the new object joins the store.
New(store, name, value, unit, siid, formula) ==
  Stored(store, Construct(name, value, unit, siid, NoneV, formula))

(***************************************************************************)
(* Arithmetic                                                              *)
(***************************************************************************)
\* self.SIID != other.SIID, the test of __add__ that raises.
DimensionsDifferNever(a, b) == FALSE

DimensionsDiffer(a, b) == a.SIID # b.SIID

\* pyunits("tmp", other, self.unit).convert(self.unitBase, out="value")
AddNumberInBase(tmp, unitBase) ==
  IF tmp.ok THEN ConvertValue(tmp.q, unitBase) ELSE Raise(tmp.err)

\* newpyunits.valueBase = round(self.valueBase + cv, precLevel), cv being
\* other in the unit of the base, or the exception of its conversion.
AddNumberShifted(s1, new, self, cv) ==
  IF cv.kind = "error" THEN Ret(s1, cv)
  ELSE Ret([s1 EXCEPT ![new].valueBase =
               Round(NumAdd(s1[self].valueBase, cv.n), precLevel)],
           RetRef(new))

\* __add__ with a number n: c is the copy of self.
AddNumber(c, self, n) ==
  AddNumberShifted([c.store EXCEPT ![c.ref].value =
                       Round(NumAdd(c.store[self].value, n), precLevel)],
                   c.ref, self,
                   IF c.store[c.ref].unitBase = c.store[self].unit THEN RetNum(n)
                   ELSE AddNumberInBase(Construct("tmp", n, c.store[self].unit,
                                                  NoSIID, NoneV, NoneV),
                                        c.store[self].unitBase))

\* __add__ with a pyunits: a is self, b is other.
AddQuantity(store, a, b) ==
  IF DimensionsDiffer(a, b) THEN Ret(store, Raise("DimensionMismatch"))
  ELSE New(store, a.name \o "+" \o b.name,
           Round(NumAdd(a.valueBase, b.valueBase), precLevel), a.unitBase,
           IF findUnitSetByName(a.unit) = {} THEN a.SIID ELSE NoSIID,
           a.name \o "+" \o b.name)

\* self.__add__(other)
Add(store, self, other) ==
  IF other.kind = "number" THEN AddNumber(DeepCopy(store, self), self, other.n)
  ELSE AddQuantity(store, store[self], store[other.ref])

\* After newpyunits = <call>: newpyunits.name = newpyunits.formula = tmpName.
Rename(r, tmpName) ==
  IF r.out.kind # "quantity" THEN r
  ELSE Ret([r.store EXCEPT ![r.out.ref].name = tmpName, ![r.out.ref].formula = tmpName],
           r.out)

\* other.value *= -1; other.valueBase *= -1 on the copy c of other.
Negated(c) ==
  [store |-> [c.store EXCEPT ![c.ref].value = NumNeg(@), ![c.ref].valueBase = NumNeg(@)],
   ref |-> c.ref]

\* self.__add__(other) with the negated copy c of other, after which the
\* result is named self.name - other.name.
SubQuantity(self, c) ==
  Rename(Add(c.store, self, Quantity(c.ref)),
         c.store[self].name \o "-" \o c.store[c.ref].name)

\* self.__sub__(other)
Sub(store, self, other) ==
  IF other.kind = "number" THEN Add(store, self, Number(NumNeg(other.n)))
  ELSE SubQuantity(self, Negated(DeepCopy(store, other.ref)))

VecAdd(x, y) == [i \in DOMAIN x |-> x[i] + y[i]]

VecScale(x, k) == [i \in DOMAIN x |-> x[i] * k]

\* __mul__ with a number n: c is the copy of self.
MulNumber(c, self, n) ==
  Ret([c.store EXCEPT ![c.ref].value = Round(NumMul(c.store[self].value, n), precLevel),
                      ![c.ref].valueBase =
                         Round(NumMul(c.store[self].valueBase, n), precLevel)],
      RetRef(c.ref))

\* __mul__ with a pyunits: product is round(self.valueBase * other.valueBase,
\* precLevel), lstUnitSet the families with the SIID newSIID.
MulQuantity(store, tmpName, product, newSIID, lstUnitSet) ==
  New(store, tmpName, product,
      IF lstUnitSet = {} THEN findUnitFromSIID(newSIID)
      ELSE unitDict[CHOOSE u \in lstUnitSet : TRUE].base,
      IF lstUnitSet = {} THEN newSIID ELSE NoSIID,
      tmpName)

\* self.__mul__(other)
Mul(store, self, other) ==
  IF other.kind = "number" THEN MulNumber(DeepCopy(store, self), self, other.n)
  ELSE MulQuantity(store, store[self].name \o "*" \o store[other.ref].name,
                   Round(NumMul(store[self].valueBase, store[other.ref].valueBase),
                         precLevel),
                   VecAdd(store[self].SIID, store[other.ref].SIID),
                   findUnitSetBySIID(VecAdd(store[self].SIID, store[other.ref].SIID)))

\* 1 / x: a ZeroDivisionError when x is zero.
ReciprocalOfZeroIsZero(x) ==
  IF IsZero(x) THEN [ok |-> TRUE, v |-> Zero] ELSE [ok |-> TRUE, v |-> NumInv(x)]

Reciprocal(x) ==
  IF IsZero(x) THEN [ok |-> FALSE, v |-> Zero] ELSE [ok |-> TRUE, v |-> NumInv(x)]

\* x.valueBase = 1 / x.valueBase; x.SIID = [i * -1 for i in x.SIID]
InvertBase(s1, x, rb) ==
  IF ~rb.ok THEN Ret(s1, Raise("ZeroDivisionError"))
  ELSE Ret([s1 EXCEPT ![x].valueBase = rb.v, ![x].SIID = VecScale(@, 0 - 1)], RetRef(x))

\* x.value = 1 / x.value, then the rest.
InvertValue(store, x, rv) ==
  IF ~rv.ok THEN Ret(store, Raise("ZeroDivisionError"))
  ELSE InvertBase([store EXCEPT ![x].value = rv.v], x, Reciprocal(store[x].valueBase))

\* x.value = 1 / x.value; x.valueBase = 1 / x.valueBase;
\* x.SIID = [i * -1 for i in x.SIID], stopping at the first exception.
Invert(store, x) == InvertValue(store, x, Reciprocal(store[x].value))

\* self.__mul__(1 / other), other a number: r is 1 / other.
TrueDivNumber(store, self, r) ==
  IF ~r.ok THEN Ret(store, Raise("ZeroDivisionError"))
  ELSE Mul(store, self, Number(r.v))

\* self.__mul__(other) with the inverted copy of other, named
\* self.name / other.name: inv is the outcome of the inversion.
TrueDivQuantity(self, inv) ==
  IF inv.out.kind = "error" THEN inv
  ELSE Rename(Mul(inv.store, self, Quantity(inv.out.ref)),
              inv.store[self].name \o "/" \o inv.store[inv.out.ref].name)

\* The inversion of the copy c.
InvertCopy(c) == Invert(c.store, c.ref)

\* self.__truediv__(other)
TrueDiv(store, self, other) ==
  IF other.kind = "number" THEN TrueDivNumber(store, self, Reciprocal(other.n))
  ELSE TrueDivQuantity(self, InvertCopy(DeepCopy(store, other.ref)))

\* The division of the product ab by other.
MulDivOver(ab, other) ==
  IF ab.out.kind = "error" THEN ab ELSE TrueDiv(ab.store, ab.out.ref, other)

\* (self * other) / other, the expression of a client: the product is a new
\* object, divided by other.
MulDiv(store, self, other) == MulDivOver(Mul(store, self, other), other)

\* What x ** p can be for an integer p; 0 to a negative power is a
\* ZeroDivisionError.
Powers(x, p) ==
  IF p < 0 /\ IsZero(x) THEN {[ok |-> FALSE, v |-> Zero]}
  ELSE {[ok |-> TRUE, v |-> v] : v \in NumPow(x, p)}

\* The end of __pow__: tmpValueBase is round(self.valueBase ** other,
\* precLevel), lstUnitSet the families with the SIID tmpSIID.
PowQuantity(store, tmpName, tmpValueBase, tmpSIID, lstUnitSet) ==
  New(store, tmpName, tmpValueBase,
      IF lstUnitSet = {} THEN findUnitFromSIID(tmpSIID)
      ELSE unitDict[CHOOSE u \in lstUnitSet : TRUE].base,
      tmpSIID, tmpName)

\* self.__pow__(other): other is [isNum, p], an integer p or something that
\* is neither an int nor a float; pw is what self.valueBase ** other gave.
Pow(store, self, other, pw) ==
  IF ~other.isNum THEN Ret(store, Raise("InvalidExponent"))
  ELSE IF ~pw.ok THEN Ret(store, Raise("ZeroDivisionError"))
  ELSE PowQuantity(store, store[self].name \o "^" \o ToString(other.p),
                   Round(pw.v, precLevel), VecScale(store[self].SIID, other.p),
                   findUnitSetBySIID(VecScale(store[self].SIID, other.p)))

\* self.__radd__(other), self.__rsub__(other), self.__rmul__(other): what
\* Python calls for other + self, other - self, other * self.
RAdd(store, self, other) == Add(store, self, other)

RSub(store, self, other) == Sub(store, self, other)

RMul(store, self, other) == Mul(store, self, other)

\* newSelf.__mul__(other) with other = pyunits(str(other), other, ""), named
\* other.name / newSelf.name: o is the outcome of that constructor.
RTrueDivTimes(newSelf, o) ==
  IF o.out.kind = "error" THEN o
  ELSE Rename(Mul(o.store, newSelf, Quantity(o.out.ref)),
              o.store[o.out.ref].name \o "/" \o o.store[newSelf].name)

\* inv is the outcome of the inversion of newSelf.
RTrueDivOver(newSelf, n, inv) ==
  IF inv.out.kind = "error" THEN inv
  ELSE RTrueDivTimes(newSelf, New(inv.store, ToString(n), Int2Num(n), "", NoSIID, NoneV))

\* __rtruediv__ on the copy c of self.
RTrueDivCopy(c, n) == RTrueDivOver(c.ref, n, Invert(c.store, c.ref))

\* self.__rtruediv__(other), other an integer n.
RTrueDiv(store, self, n) == RTrueDivCopy(DeepCopy(store, self), n)

\* self.__neg__()
Neg(store, self) ==
  LET c == DeepCopy(store, self)
  IN  Ret([c.store EXCEPT ![c.ref].value = NumNeg(@), ![c.ref].valueBase = NumNeg(@)],
          RetRef(c.ref))

\* self.__abs__()
Abs(store, self) ==
  LET c == DeepCopy(store, self)
  IN  Ret([c.store EXCEPT ![c.ref].value = NumAbs(@), ![c.ref].valueBase = NumAbs(@)],
          RetRef(c.ref))

(***************************************************************************)
(* Comparisons                                                             *)
(***************************************************************************)
\* pyunits.checkSameSIIDCompare(firstVar, secondVar): TRUE when it raises.
checkSameSIIDCompare(firstVar, secondVar) == firstVar.SIID # secondVar.SIID

NumLessEq(x, y) == x = y \/ NumLess(x, y)

\* self.__lt__(other)
Lt(store, self, other) ==
  IF other.kind = "number"
  THEN RetBool(NumLess(Round(store[self].value, precLevel), Round(other.n, precLevel)))
  ELSE IF checkSameSIIDCompare(store[self], store[other.ref])
       THEN Raise("DimensionMismatch")
  ELSE RetBool(NumLess(Round(store[self].valueBase, precLevel),
                       Round(store[other.ref].valueBase, precLevel)))

\* self.__gt__(other)
Gt(store, self, other) ==
  IF other.kind = "number"
  THEN RetBool(NumLess(Round(other.n, precLevel), Round(store[self].value, precLevel)))
  ELSE IF checkSameSIIDCompare(store[self], store[other.ref])
       THEN Raise("DimensionMismatch")
  ELSE RetBool(NumLess(Round(store[other.ref].valueBase, precLevel),
                       Round(store[self].valueBase, precLevel)))

\* self.__le__(other).  The class body defines __le__ four times (less than
\* or equal, greater than or equal, equal to, not equal to); each definition
\* replaces the one before, so the method of the class is the last one, which
\* answers "not equal to".
Le(store, self, other) ==
  IF other.kind = "number"
  THEN RetBool(Round(store[self].value, precLevel) # Round(other.n, precLevel))
  ELSE IF checkSameSIIDCompare(store[self], store[other.ref])
       THEN Raise("DimensionMismatch")
  ELSE RetBool(Round(store[self].valueBase, precLevel)
               # Round(store[other.ref].valueBase, precLevel))

\* The operators of Python on a pyunits self.  The class defines __lt__,
\* __gt__ and __le__ only: self >= other falls to the reflected
\* other.__le__(self) when other is a pyunits and is a TypeError when it is
\* a number; self == other and self != other are object's, by identity.
OpLt(store, self, other) == Lt(store, self, other)

OpGt(store, self, other) == Gt(store, self, other)

OpLe(store, self, other) == Le(store, self, other)

OpGe(store, self, other) ==
  IF other.kind = "number" THEN Raise("TypeError")
  ELSE Le(store, other.ref, Quantity(self))

OpEq(store, self, other) ==
  IF other.kind = "number" THEN RetBool(FALSE) ELSE RetBool(self = other.ref)

OpNe(store, self, other) ==
  IF other.kind = "number" THEN RetBool(TRUE) ELSE RetBool(self # other.ref)

(***************************************************************************)
(* update                                                                  *)
(***************************************************************************)
\* self.update(name=name, value=value, info=info, formula=formula): an
\* argument left out is NoneV (name, info, formula) or absent (value).  Each
\* argument given replaces the attribute and nothing else is recomputed; the
\* unit argument is accepted and never read.
Update(store, self, name, hasValue, value, info, formula) ==
  [store EXCEPT ![self].name = IF name # NoneV THEN name ELSE @,
                ![self].value = IF hasValue THEN value ELSE @,
                ![self].info = IF info # NoneV THEN info ELSE @,
                ![self].formula = IF formula # NoneV THEN formula ELSE @]

(***************************************************************************)
(* The state machine: two program variables a = heap[1] and b = heap[2],   *)
(* each bound to a pyunits, and a client that evaluates one expression or  *)
(* call at a time and drops its result before the next.  res is what the   *)
(* last one gave, op what it was, pre the heap before it.                  *)
(***************************************************************************)
MaxMag == 1

\* The magnitudes and bare numbers fed in.
Mags == 0..MaxMag

\* The units fed in: symbols of the catalog, and one label that is not in
\* the catalog, given with its SIID.
InUnits ==
  {[unit |-> u, SIID |-> NoSIID] : u \in {"", "dm", "m", "cm4"}}
  \cup {[unit |-> "kg s", SIID |-> <<0, 1, 1, 0, 0, 0, 0>>]}

\* A symbol that is in no family, given without SIID.
BadUnits == {[unit |-> "ft", SIID |-> NoSIID]}

ToUnits == {u.unit : u \in InUnits \cup BadUnits}

\* The value update() is called with.
UpdateValues == {0}

\* The other arguments update() is called with: the name left out, info and
\* formula given.
UpdateCalls == {[name |-> NoneV, info |-> "reset", formula |-> "zero"]}

Exponents == {[isNum |-> TRUE, p |-> p] : p \in {0 - 1, 0, 2}} \cup {[isNum |-> FALSE, p |-> 0]}

InObjs(name) ==
  {Construct(name, Int2Num(v), u.unit, u.SIID, NoneV, NoneV).q : v \in Mags, u \in InUnits}

Vars == {1, 2}

\* The variable the client converts and updates in place: a.  b is bound
\* once and only read.
InPlaceVars == {1}

Operands == {Quantity(j) : j \in Vars} \cup {Number(Int2Num(n)) : n \in Mags}

NoOperand == [kind |-> "none", ref |-> 0, n |-> Zero]

NoRes == [kind |-> "none", err |-> "", q |-> NoQ, alias |-> 0, n |-> Zero, b |-> FALSE]

\* The outcome of a call as the client sees it: the object returned (and
\* which variable's object it is, 0 for a new one), the number, the boolean or
\* the exception.
Result(r) ==
  [kind |-> r.out.kind, err |-> r.out.err,
   q |-> IF r.out.kind = "quantity" THEN r.store[r.out.ref] ELSE NoQ,
   alias |-> IF r.out.kind = "quantity" /\ r.out.ref \in Vars THEN r.out.ref ELSE 0,
   n |-> r.out.n, b |-> r.out.b]

Idle == [name |-> "idle", self |-> 0, other |-> NoOperand, arg |-> ""]

Step(name, self, other, arg, r) ==
  /\ op = Idle
  /\ heap' = SubSeq(r.store, 1, Len(heap))
  /\ res' = Result(r)
  /\ op' = [name |-> name, self |-> self, other |-> other, arg |-> arg]
  /\ pre' = heap
  /\ proc' = proc

\* The process of a client that has imported the module and bound a and b.
Imported == [mode |-> "import", pc |-> "client", checked |-> FALSE, constructed |-> TRUE]

Init ==
  /\ heap \in {<<qa, qb>> : qa \in InObjs("a"), qb \in InObjs("b")}
  /\ res = NoRes
  /\ op = Idle
  /\ pre = heap
  /\ proc = Imported

\* What the client sees of a constructor call: the object or the exception.
Outcome(c) ==
  IF c.ok THEN [NoRes EXCEPT !.kind = "quantity", !.q = c.q]
  ELSE [NoRes EXCEPT !.kind = "error", !.err = c.err]

\* pyunits("c", v, unit, SIID, "note", "w"): the client gives every argument.
DoConstruct ==
  \E v \in Mags, u \in InUnits \cup BadUnits :
    /\ op = Idle
    /\ heap' = heap
    /\ res' = Outcome(Construct("c", Int2Num(v), u.unit, u.SIID, "note", "w"))
    /\ op' = [name |-> "construct", self |-> 0, other |-> Number(Int2Num(v)),
              arg |-> u.unit]
    /\ pre' = heap
    /\ proc' = proc

\* The declarations fed to the one-string form: the one of main (fy=200MPa),
\* a decimal value in a unit that is not the base of its family, and one for
\* each way the form fails (no "=", two of them, no unit, a value that is no
\* numeral, a symbol of no family).
Declarations ==
  {<<"f", "y", "=", "2", "0", "0", "M", "P", "a">>,
   <<"a", "=", "1", ".", "5", "d", "m">>,
   <<"a", "=", "2", "m">>,
   <<"a", "5", "m">>,
   <<"a", "=", "1", "=", "2", "m">>,
   <<"a", "=", "5">>,
   <<"a", "=", ".", "m">>,
   <<"a", "=", "m">>,
   <<"a", "=", "1", "^", "2", "m">>,
   <<"a", "=", "1", "f", "t">>}

DoConstructString ==
  \E d \in Declarations :
    /\ op = Idle
    /\ heap' = heap
    /\ res' = Outcome(ConstructString(d, NoSIID, NoneV, NoneV))
    /\ op' = [name |-> "construct_string", self |-> 0, other |-> NoOperand, arg |-> Text(d)]
    /\ pre' = heap
    /\ proc' = proc

\* pyunits("c", v) and pyunits("c", unit=u)
DoConstructMissing ==
  \E given \in {"value", "unit"} :
    /\ op = Idle
    /\ heap' = heap
    /\ res' = Outcome(ConstructMissing)
    /\ op' = [name |-> "construct_missing", self |-> 0, other |-> NoOperand, arg |-> given]
    /\ pre' = heap
    /\ proc' = proc

DoAdd == \E i \in Vars, o \in Operands : Step("add", i, o, "", Add(heap, i, o))

DoSub == \E i \in Vars, o \in Operands : Step("sub", i, o, "", Sub(heap, i, o))

DoMul == \E i \in Vars, o \in Operands : Step("mul", i, o, "", Mul(heap, i, o))

DoTrueDiv ==
  \E i \in Vars, o \in Operands : Step("truediv", i, o, "", TrueDiv(heap, i, o))

DoMulDiv ==
  \E i \in Vars, j \in Vars :
    Step("muldiv", i, Quantity(j), "", MulDiv(heap, i, Quantity(j)))

DoPow ==
  /\ op = Idle
  /\ \E i \in Vars, x \in Exponents :
       \E pw \in (IF x.isNum THEN Powers(heap[i].valueBase, x.p)
                  ELSE {[ok |-> TRUE, v |-> Zero]}) :
         Step("pow", i, NoOperand, IF x.isNum THEN ToString(x.p) ELSE "x",
              Pow(heap, i, x, pw))

\* n + self, n - self, n * self, n / self for a bare number n.
DoRAdd == \E i \in Vars, n \in Mags : Step("radd", i, Number(Int2Num(n)), "", RAdd(heap, i, Number(Int2Num(n))))

DoRSub == \E i \in Vars, n \in Mags : Step("rsub", i, Number(Int2Num(n)), "", RSub(heap, i, Number(Int2Num(n))))

DoRMul == \E i \in Vars, n \in Mags : Step("rmul", i, Number(Int2Num(n)), "", RMul(heap, i, Number(Int2Num(n))))

DoRTrueDiv ==
  \E i \in Vars, n \in Mags :
    Step("rtruediv", i, Number(Int2Num(n)), "", RTrueDiv(heap, i, n))

DoNeg == \E i \in Vars : Step("neg", i, NoOperand, "", Neg(heap, i))

DoAbs == \E i \in Vars : Step("abs", i, NoOperand, "", Abs(heap, i))

DoLt == \E i \in Vars, o \in Operands : Step("lt", i, o, "", Ret(heap, OpLt(heap, i, o)))

DoGt == \E i \in Vars, o \in Operands : Step("gt", i, o, "", Ret(heap, OpGt(heap, i, o)))

DoLe == \E i \in Vars, o \in Operands : Step("le", i, o, "", Ret(heap, OpLe(heap, i, o)))

DoGe == \E i \in Vars, o \in Operands : Step("ge", i, o, "", Ret(heap, OpGe(heap, i, o)))

DoEq == \E i \in Vars, o \in Operands : Step("eq", i, o, "", Ret(heap, OpEq(heap, i, o)))

DoNe == \E i \in Vars, o \in Operands : Step("ne", i, o, "", Ret(heap, OpNe(heap, i, o)))

DoConvertValue ==
  \E i \in Vars, u \in ToUnits :
    Step("convert_value", i, NoOperand, u, Convert(heap, i, u, "value"))

DoConvert ==
  \E i \in InPlaceVars, u \in ToUnits :
    Step("convert", i, NoOperand, u, Convert(heap, i, u, "variable"))

DoUpdate ==
  \E i \in InPlaceVars, v \in UpdateValues, c \in UpdateCalls :
    /\ op = Idle
    /\ heap' = Update(heap, i, c.name, TRUE, Int2Num(v), c.info, c.formula)
    /\ res' = NoRes
    /\ op' = [name |-> "update", self |-> i, other |-> Number(Int2Num(v)),
              arg |-> c.formula]
    /\ pre' = heap
    /\ proc' = proc

\* The client drops the result and goes on.
Discard ==
  /\ op # Idle
  /\ heap' = heap
  /\ res' = NoRes
  /\ op' = Idle
  /\ pre' = heap
  /\ proc' = proc

Next ==
  \/ Discard
  \/ DoConstruct
  \/ DoConstructString
  \/ DoConstructMissing
  \/ DoAdd
  \/ DoSub
  \/ DoMul
  \/ DoTrueDiv
  \/ DoMulDiv
  \/ DoPow
  \/ DoRAdd
  \/ DoRSub
  \/ DoRMul
  \/ DoRTrueDiv
  \/ DoNeg
  \/ DoAbs
  \/ DoLt
  \/ DoGt
  \/ DoLe
  \/ DoGe
  \/ DoEq
  \/ DoNe
  \/ DoConvertValue
  \/ DoConvert
  \/ DoUpdate

Spec == Init /\ [][Next]_vars

(***************************************************************************)
(* Round trips of convert(out="value"): a pyunits in unit A of a family is *)
(* converted to B, a pyunits is built from that number in unit B and       *)
(* converted back to A.  Every family and every pair of its symbols.       *)
(***************************************************************************)
AllUnits == UNION {Range(unitDict[us].units) : us \in UnitSets}

InitConv ==
  /\ \E v \in Mags, u \in AllUnits :
       heap = <<Construct("a", Int2Num(v), u, NoSIID, NoneV, NoneV).q,
                Construct("a", Int2Num(v), u, NoSIID, NoneV, NoneV).q>>
  /\ res = NoRes
  /\ op = Idle
  /\ pre = heap
  /\ proc = Imported

\* a.convert(B, out="value") for a symbol B of a's family.
ConvertForth ==
  \E u \in Range(unitDict[heap[1].unitSet].units) :
    Step("forth", 1, NoOperand, u, Convert(heap, 1, u, "value"))

\* b = pyunits("b", <that number>, B); b.convert(A, out="value")
ConvertBack ==
  /\ op.name = "forth"
  /\ res.kind = "number"
  /\ LET Given(cv) == [NoRes EXCEPT !.kind = cv.kind, !.err = cv.err, !.n = cv.n]
         Back(c) ==
           /\ heap' = [heap EXCEPT ![2] = c.q]
           /\ res' = Given(ConvertValue(c.q, heap[1].unit))
     IN  /\ Back(Construct("b", res.n, op.arg, NoSIID, NoneV, NoneV))
         /\ op' = [op EXCEPT !.name = "back"]
         /\ pre' = heap
         /\ proc' = proc

NextConv ==
  \/ ConvertForth
  \/ ConvertBack

SpecConv == InitConv /\ [][NextConv]_vars

(***************************************************************************)
(* The process from its start: the module body is executed, either as a    *)
(* script (python pyunits.py) or by an import statement of a client.       *)
(***************************************************************************)
Modes == {"script", "import"}

\* lstUnits of unitDicTest(): the symbols of every family, one list.
RECURSIVE lstUnitsOf(_)
lstUnitsOf(keys) ==
  IF keys = {} THEN << >>
  ELSE LET key == CHOOSE k \in keys : TRUE
       IN  unitDict[key].units \o lstUnitsOf(keys \ {key})

\* unitDicTest(): TRUE when it raises.
unitDicTest == Cardinality(Range(lstUnitsOf(UnitSets))) # Len(lstUnitsOf(UnitSets))

InitStart ==
  /\ heap = <<NoQ, NoQ>>
  /\ res = NoRes
  /\ op = Idle
  /\ pre = heap
  /\ proc \in {[mode |-> m, pc |-> "load", checked |-> FALSE, constructed |-> FALSE] :
                m \in Modes}

\* The module body: the imports, unitDict, precLevel, the class and the two
\* functions are defined, then the guard  if __name__ == "__main__"  is
\* evaluated.  It is true for a script only; an import returns to the client.
Load ==
  /\ proc.pc = "load"
  /\ proc' = [proc EXCEPT !.pc = IF proc.mode = "script" THEN "guard" ELSE "client"]
  /\ UNCHANGED <<heap, res, op, pre>>

\* unitDicTest() under the guard: the exception ends the process.
SelfCheck ==
  /\ proc.pc = "guard"
  /\ proc' = IF unitDicTest THEN [proc EXCEPT !.pc = "aborted"]
             ELSE [proc EXCEPT !.pc = "main", !.checked = TRUE]
  /\ UNCHANGED <<heap, res, op, pre>>

\* main() under the guard: a = pyunits("a", 200, "mm"),
\* b = pyunits("b", 10 * 1e-3, "cm"), fy = pyunits("fy=200MPa"), then the
\* expressions it prints, which leave a, b and fy as they are; main returns
\* None and the script ends.  res shows fy.
Main ==
  /\ proc.pc = "main"
  /\ heap' = <<Construct("a", Int2Num(200), "mm", NoSIID, NoneV, NoneV).q,
               Construct("b", NumMul(Int2Num(10), Dec(1, 0 - 3)), "cm", NoSIID, NoneV, NoneV).q>>
  /\ res' = Outcome(ConstructString(<<"f", "y", "=", "2", "0", "0", "M", "P", "a">>,
                                    NoSIID, NoneV, NoneV))
  /\ op' = [name |-> "main", self |-> 0, other |-> NoOperand, arg |-> ""]
  /\ pre' = heap
  /\ proc' = [proc EXCEPT !.pc = "exit", !.constructed = TRUE]

\* The importing client binds a or b to a new pyunits.
ClientConstruct ==
  \E i \in Vars, q \in InObjs("a") \cup InObjs("b") :
    /\ proc.pc = "client"
    /\ heap[i] = NoQ
    /\ q.name = (IF i = 1 THEN "a" ELSE "b")
    /\ heap' = [heap EXCEPT ![i] = q]
    /\ res' = NoRes
    /\ op' = [name |-> "bind", self |-> i, other |-> NoOperand, arg |-> q.unit]
    /\ pre' = heap
    /\ proc' = [proc EXCEPT !.constructed = TRUE]

NextStart ==
  \/ Load
  \/ SelfCheck
  \/ Main
  \/ ClientConstruct

SpecStart == InitStart /\ [][NextStart]_vars

(***************************************************************************)
(* Synthesized units: a client multiplies two pyunits, a of a power of the *)
(* length and b of powers of the other six axes.  When the sum of their    *)
(* SIIDs is the SIID of no family, __mul__ builds the label of the product *)
(* from the SI symbols and constructs the product with that label and that *)
(* SIID.                                                                   *)
(***************************************************************************)
\* The powers of the length axis and of the other axes that are fed in.
MaxLenExp == 6

MaxExp == 1

\* The SIIDs of the products.
Vectors ==
  {<<l>> \o t : l \in (0 - MaxLenExp)..MaxLenExp,
                t \in [1..6 -> (0 - MaxExp)..MaxExp]}

\* The SIID of a and the SIID of b for a product of SIID siid.
LengthPart(siid) == [i \in DOMAIN siid |-> IF i = 1 THEN siid[i] ELSE 0]

OtherPart(siid) == [i \in DOMAIN siid |-> IF i = 1 THEN 0 ELSE siid[i]]

\* The magnitudes of a and b.
SynthValues == {<<1, 2>>}

\* The operand the client constructs for an SIID: pyunits(name, v, unit) in
\* the base unit of the family of that SIID, or, when it is the SIID of no
\* family, pyunits(name, v, label, SIID=siid) under a label of the client.
SynthOperand(name, v, siid, label) ==
  IF findUnitSetBySIID(siid) = {}
  THEN Construct(name, Int2Num(v), label, siid, NoneV, NoneV).q
  ELSE Construct(name, Int2Num(v),
                 unitDict[CHOOSE us \in findUnitSetBySIID(siid) : TRUE].base,
                 NoSIID, NoneV, NoneV).q

\* The client has bound a and b.
InitSynth ==
  /\ heap \in {<<SynthOperand("a", v[1], LengthPart(siid), "x"),
                 SynthOperand("b", v[2], OtherPart(siid), "y")>> :
                 siid \in Vectors, v \in SynthValues}
  /\ res = NoRes
  /\ op = Idle
  /\ pre = heap
  /\ proc = Imported

\* a * b
Synthesize == Step("synth", 1, Quantity(2), "", Mul(heap, 1, Quantity(2)))

NextSynth ==
  \/ Synthesize
  \/ Discard

SpecSynth == InitSynth /\ [][NextSynth]_vars

(***************************************************************************)
(* Properties                                                              *)
(***************************************************************************)
One == Int2Num(1)

\* 1e14
Tolerance == Dec(1, 14)

\* Two magnitudes that agree to the 15 significant digits of the working
\* precision: equal, or apart by less than 1e-14 of the second.
SameMagnitude(x, y) ==
  \/ x = y
  \/ NumLess(NumMul(NumAbs(NumAdd(x, NumNeg(y))), Tolerance), NumAbs(y))

SelfPre == pre[op.self]

OtherPre == pre[op.other.ref]

OnQuantity == op.other.kind = "quantity"

VecSub(x, y) == [i \in DOMAIN x |-> x[i] - y[i]]

\* The family and the unit that multiplication gives a result of SIID siid:
\* the family of that SIID in its base unit, or no family and the label
\* built from the SI symbols.
ResolvedAsMul(q, siid) ==
  /\ \A us \in UnitSets :
       unitDict[us].SIID = siid => q.unitSet = us /\ q.unit = unitDict[us].base
  /\ (\A us \in UnitSets : unitDict[us].SIID # siid)
       => q.unitSet = NoneV /\ q.unit = findUnitFromSIID(siid)

\* C11: whether the module runs as a script or is imported, unitDicTest()
\* has returned before the first pyunits is constructed (and when it raises
\* none is constructed): in every state where a pyunits has been
\* constructed, the self-check has completed.
C11_SelfCheckBeforeFirstQuantity == proc.constructed => proc.checked

\* C1: for two pyunits with the same SIID, == is true exactly when the
\* magnitudes in the base unit are equal, whatever the display units, and !=
\* is its negation.
C1_EqualityOnBaseMagnitudes ==
  (op.name \in {"eq", "ne"} /\ OnQuantity /\ SelfPre.SIID = OtherPre.SIID)
    => /\ res.kind = "boolean"
       /\ res.b = IF op.name = "eq" THEN SelfPre.valueBase = OtherPre.valueBase
                  ELSE SelfPre.valueBase # OtherPre.valueBase

\* The factor from the display unit of q to the base unit of its family.
FactorToBase(q) ==
  LET ud == unitDict[q.unitSet]
      i == Index(ud.units, q.unit)
      b == Index(ud.units, ud.base)
  IN  IF i = b THEN One ELSE NumDiv(E[ud.factors[b]], E[ud.factors[i]])

Consistent(q) ==
  q.unitSet # NoneV
    => SameMagnitude(q.valueBase, NumMul(q.value, FactorToBase(q)))

\* C2: whenever the family of a pyunits is set, its valueBase is its value
\* times the conversion factor from its unit to the base unit of the family,
\* to the working precision: for the objects of both variables and for every
\* object returned.
C2_BaseMagnitudeConsistent ==
  /\ \A i \in Vars : Consistent(heap[i])
  /\ res.kind = "quantity" => Consistent(res.q)

\* The operations that are said to copy: everything but the in-place
\* conversion and update (and the constructor, which has no operand).
CopyingOps ==
  {"add", "sub", "mul", "truediv", "pow", "radd", "rsub", "rmul", "rtruediv",
   "neg", "abs", "lt", "gt", "le", "ge", "eq", "ne", "convert_value"}

\* C3: every operation other than the in-place conversion leaves every field
\* of both variables' objects as it was, and a pyunits it returns is a new
\* object, neither of the operands.
C3_OperandsUnchanged ==
  op.name \in CopyingOps => /\ heap = pre
                            /\ res.kind = "quantity" => res.alias = 0

\* A subtraction of two pyunits, the second with a nonzero magnitude (which
\* the method negates in its copy), that returned an object.
C3_Witness ==
  /\ op.name = "sub" /\ OnQuantity
  /\ OtherPre.value # Zero /\ OtherPre.valueBase # Zero
  /\ res.kind = "quantity"

\* C4: within every family, a value-only conversion from any symbol A to any
\* symbol B raises nothing, and converting the value back from B to A raises
\* nothing and gives the magnitude started from, to the working precision.
C4_RoundTrip ==
  /\ op.name = "forth" => res.kind = "number"
  /\ op.name = "back"
       => res.kind = "number" /\ SameMagnitude(res.n, heap[1].value)

\* C5: a + b and a - b of two pyunits succeed exactly when their SIIDs are
\* identical; the result then has valueBase a.valueBase + b.valueBase (resp.
\* minus), to the working precision, and a's base unit as its unit; otherwise
\* the operation raises the dimension mismatch and returns nothing.
C5_AddSubSameDimension ==
  (op.name \in {"add", "sub"} /\ OnQuantity)
    => IF SelfPre.SIID = OtherPre.SIID
       THEN /\ res.kind = "quantity"
            /\ SameMagnitude(res.q.valueBase,
                             NumAdd(SelfPre.valueBase,
                                    IF op.name = "add" THEN OtherPre.valueBase
                                    ELSE NumNeg(OtherPre.valueBase)))
            /\ res.q.unit = SelfPre.unitBase
       ELSE res.kind = "error" /\ res.err = "DimensionMismatch" /\ res.q = NoQ

\* 1 dm + 1 m (or 2 dm + ...): two display units of one family, nonzero, added.
C5_Witness ==
  /\ op.name = "add" /\ OnQuantity
  /\ SelfPre.unit = "dm" /\ OtherPre.unit = "m"
  /\ SelfPre.valueBase = Dec(1, 0 - 1) /\ OtherPre.valueBase = One
  /\ res.kind = "quantity" /\ res.q.valueBase = Dec(11, 0 - 1)
  /\ res.q.unit = "m"

\* C6: a * b of two pyunits never fails; the SIID of the result is the
\* element-wise sum, its valueBase the product of the valueBases, to the
\* working precision; if the sum is the SIID of a family the result is of that family, in its base unit,
\* otherwise its family is unset and its unit is the label built from the SI
\* symbols.
C6_MulDerivesUnit ==
  (op.name = "mul" /\ OnQuantity)
    => LET siid == VecAdd(SelfPre.SIID, OtherPre.SIID)
       IN  /\ res.kind = "quantity"
           /\ res.q.SIID = siid
           /\ SameMagnitude(res.q.valueBase,
                            NumMul(SelfPre.valueBase, OtherPre.valueBase))
           /\ \A us \in UnitSets :
                unitDict[us].SIID = siid
                  => res.q.unitSet = us /\ res.q.unit = unitDict[us].base
           /\ (\A us \in UnitSets : unitDict[us].SIID # siid)
                => res.q.unitSet = NoneV /\ res.q.unit = findUnitFromSIID(siid)

\* C12: for pyunits a and b with b.value nonzero, a / b is a pyunits whose
\* SIID is a.SIID - b.SIID element-wise and whose valueBase is
\* a.valueBase / b.valueBase, of the family and unit multiplication would
\* give; (a * b) / b has the SIID and the valueBase of a; a / a is of the
\* unitless family with unit "".  Magnitudes are compared to the working
\* precision.
C12_DivisionDerivesUnit ==
  /\ (op.name = "truediv" /\ OnQuantity /\ OtherPre.value # Zero)
       => /\ res.kind = "quantity"
          /\ res.q.SIID = VecSub(SelfPre.SIID, OtherPre.SIID)
          /\ SameMagnitude(res.q.valueBase,
                           NumDiv(SelfPre.valueBase, OtherPre.valueBase))
          /\ ResolvedAsMul(res.q, VecSub(SelfPre.SIID, OtherPre.SIID))
          /\ op.other.ref = op.self => res.q.unitSet = "unitless" /\ res.q.unit = ""
  /\ (op.name = "muldiv" /\ OtherPre.value # Zero)
       => /\ res.kind = "quantity"
          /\ res.q.SIID = SelfPre.SIID
          /\ SameMagnitude(res.q.valueBase, SelfPre.valueBase)

\* The exponent of the last q ** p, as DoPow recorded it.
ExponentOf(arg) ==
  CHOOSE x \in Exponents : arg = (IF x.isNum THEN ToString(x.p) ELSE "x")

\* q * q on the heap before the call.
SelfSquared == Result(Mul(pre, op.self, Quantity(op.self)))

\* C13: q ** p for an integer p (a power that exists: not zero to a negative
\* p) is a pyunits whose SIID is q.SIID scaled by p and whose valueBase is
\* q.valueBase to the power p, of the family and unit multiplication would
\* give for that SIID; q ** 2 has the SIID, family, unit and valueBase of
\* q * q; an exponent that is neither an int nor a float raises and gives no
\* object.  Magnitudes are compared to the working precision.
C13_PowScalesDimension ==
  op.name = "pow"
    => IF ~ExponentOf(op.arg).isNum
       THEN res.kind = "error" /\ res.q = NoQ /\ heap = pre
       ELSE LET p == ExponentOf(op.arg).p
            IN  ~(p < 0 /\ IsZero(SelfPre.valueBase))
                  => /\ res.kind = "quantity"
                     /\ res.q.SIID = VecScale(SelfPre.SIID, p)
                     /\ \E v \in NumPow(SelfPre.valueBase, p) :
                          SameMagnitude(res.q.valueBase, v)
                     /\ ResolvedAsMul(res.q, VecScale(SelfPre.SIID, p))
                     /\ p = 2 => /\ SelfSquared.kind = "quantity"
                                 /\ res.q.SIID = SelfSquared.q.SIID
                                 /\ res.q.unitSet = SelfSquared.q.unitSet
                                 /\ res.q.unit = SelfSquared.q.unit
                                 /\ SameMagnitude(res.q.valueBase,
                                                  SelfSquared.q.valueBase)

\* C7: dividing a pyunits by a pyunits whose magnitude is 0, or by the number
\* 0, raises the division by zero, returns no object and leaves both operands
\* as they were.
C7_DivisionByZeroRaises ==
  (/\ op.name = "truediv"
   /\ \/ OnQuantity /\ OtherPre.value = Zero
      \/ op.other.kind = "number" /\ op.other.n = Zero)
    => /\ res.kind = "error" /\ res.err = "ZeroDivisionError"
       /\ res.q = NoQ
       /\ heap = pre

\* A division by a pyunits of magnitude 0 whose valueBase is not 0 (it was
\* updated), which raised.
C7_Witness ==
  /\ op.name = "truediv" /\ OnQuantity
  /\ OtherPre.value = Zero /\ OtherPre.valueBase # Zero
  /\ SelfPre.value # Zero
  /\ res.kind = "error"

\* C8: n - q for a bare number n is a pyunits of magnitude n - q.value, to
\* the working precision, in the unit of q.
C8_ReverseSubtraction ==
  op.name = "rsub"
    => /\ res.kind = "quantity"
       /\ SameMagnitude(res.q.value, NumAdd(op.other.n, NumNeg(SelfPre.value)))
       /\ res.q.unit = SelfPre.unit

\* C9: for two pyunits with the same SIID, <, >, <= and >= answer the
\* ordering of the magnitudes in the base unit.
C9_OrderingOnBaseMagnitudes ==
  (op.name \in {"lt", "gt", "le", "ge"} /\ OnQuantity /\ SelfPre.SIID = OtherPre.SIID)
    => /\ res.kind = "boolean"
       /\ res.b = CASE op.name = "lt" -> NumLess(SelfPre.valueBase, OtherPre.valueBase)
                    [] op.name = "gt" -> NumLess(OtherPre.valueBase, SelfPre.valueBase)
                    [] op.name = "le" -> NumLessEq(SelfPre.valueBase, OtherPre.valueBase)
                    [] op.name = "ge" -> NumLessEq(OtherPre.valueBase, SelfPre.valueBase)

\* C10: each of <, >, <=, >=, ==, != on two pyunits whose SIIDs differ raises
\* the dimension mismatch instead of answering.
C10_ComparisonAcrossDimensionsRaises ==
  (op.name \in {"lt", "gt", "le", "ge", "eq", "ne"} /\ OnQuantity
   /\ SelfPre.SIID # OtherPre.SIID)
    => res.kind = "error" /\ res.err = "DimensionMismatch"

\* C14: when the SIID of a product a * b is the SIID of no family, the label
\* built for it is a symbol of no family, and the product, constructed with
\* that label and that SIID, has the label as its unit, no family, and the
\* SIID it was given.
C14_SynthesizedLabelNotInCatalog ==
  (op.name = "synth" /\ findUnitSetBySIID(VecAdd(SelfPre.SIID, OtherPre.SIID)) = {})
    => /\ findUnitFromSIID(VecAdd(SelfPre.SIID, OtherPre.SIID)) \notin AllUnits
       /\ res.kind = "quantity"
       /\ res.q.unit = findUnitFromSIID(VecAdd(SelfPre.SIID, OtherPre.SIID))
       /\ res.q.unitSet = NoneV
       /\ res.q.SIID = VecAdd(SelfPre.SIID, OtherPre.SIID)

\* 1 x of SIID m5 times 2 kg: the product is 2 "m5 kg", of no family.
C14_Witness ==
  /\ op.name = "synth"
  /\ SelfPre.SIID = <<5, 0, 0, 0, 0, 0, 0>> /\ SelfPre.unit = "x"
  /\ OtherPre.SIID = <<0, 1, 0, 0, 0, 0, 0>> /\ OtherPre.unit = "kg"
  /\ res.kind = "quantity" /\ res.q.unit = "m5 kg" /\ res.q.unitSet = NoneV
  /\ res.q.SIID = <<5, 1, 0, 0, 0, 0, 0>>
  /\ res.q.name = "a*b" /\ res.q.valueBase = Int2Num(2)

============================================================================
